---------------------------- MODULE Spec2Model ----------------------------
(***************************************************************************)
(* Model of the two scripts of java-chat:                                  *)
(*   scripts/oracle_javadoc_seed.py  (seed-URL derivation for Javadoc)     *)
(*   scripts/recover_cache.py        (recovery of a truncated cache)       *)
(* Text is modelled as TLA+ strings, character by character: a string is   *)
(* a sequence of characters, so Len, \o and SubSeq apply to it.            *)
(***************************************************************************)
EXTENDS Integers, Sequences, FiniteSets, TLC

(***************************************************************************)
(* Characters and Python's str primitives                                  *)
(***************************************************************************)

\* The printable ASCII characters in code-point order: 32..95 and 97..126
\* (the backquote, 96, is not used by any text of the model).
AsciiLow == " !\"#$%&'()*+,-./0123456789:;<=>?@ABCDEFGHIJKLMNOPQRSTUVWXYZ[\\]^_"
AsciiHigh == "abcdefghijklmnopqrstuvwxyz{|}~"

\* One character outside ASCII (U+00E9), legal in Java identifiers.
EAcute == "é"

CharAt(s, i) == SubSeq(s, i, i)

\* ord(c): the code point of a character.
CodePoints ==
  {<<CharAt(AsciiLow, i), 31 + i>> : i \in 1..Len(AsciiLow)}
    \cup {<<CharAt(AsciiHigh, i), 96 + i>> : i \in 1..Len(AsciiHigh)}
    \cup {<<EAcute, 233>>}

OrdTable == [c \in {p[1] : p \in CodePoints} |-> (CHOOSE p \in CodePoints : p[1] = c)[2]]

Ord(c) == OrdTable[c]

Chr(n) == (CHOOSE p \in CodePoints : p[2] = n)[1]

Digits == {"0", "1", "2", "3", "4", "5", "6", "7", "8", "9"}

IsAlpha(c) == Ord(c) \in (65..90) \cup (97..122)

\* str.lower() of one character.
LowerChar(c) == IF Ord(c) \in 65..90 THEN Chr(Ord(c) + 32) ELSE c

\* "".join(parts[lo..hi])
RECURSIVE ConcatRange(_, _, _)
ConcatRange(parts, lo, hi) ==
  IF lo > hi THEN ""
  ELSE IF lo = hi THEN parts[lo]
  ELSE ConcatRange(parts, lo, (lo + hi) \div 2) \o ConcatRange(parts, ((lo + hi) \div 2) + 1, hi)

Lower(s) == ConcatRange([k \in 1..Len(s) |-> LowerChar(CharAt(s, k))], 1, Len(s))

\* The least element of a set of offsets, or -1.
FirstOf(C) == IF C = {} THEN -1 ELSE CHOOSE i \in C : \A j \in C : i <= j

\* s[i:] and s[:i] with 0-based Python offsets.
From(s, i) == IF i >= Len(s) THEN "" ELSE SubSeq(s, i + 1, Len(s))
UpTo(s, i) == IF i >= Len(s) THEN s ELSE SubSeq(s, 1, i)

StartsWith(s, p) == Len(p) <= Len(s) /\ SubSeq(s, 1, Len(p)) = p
EndsWith(s, p) == Len(p) <= Len(s) /\ SubSeq(s, Len(s) - Len(p) + 1, Len(s)) = p

\* s.find(sub, start): 0-based offset of the first occurrence at or after
\* start, or -1.
Find(s, sub, start) ==
  FirstOf({i \in start..(Len(s) - Len(sub)) : SubSeq(s, i + 1, i + Len(sub)) = sub})

\* s.split(sub, 1)[0] and what follows the first sub ("" when there is none).
BeforeAt(s, at) == IF at = -1 THEN s ELSE UpTo(s, at)
AfterAt(s, at) == IF at = -1 THEN "" ELSE From(s, at + 1)
Before(s, sub) == BeforeAt(s, Find(s, sub, 0))
After(s, sub) == AfterAt(s, Find(s, sub, 0))

\* s.replace(a, b) for single characters a.
Replace(s, a, b) ==
  ConcatRange([k \in 1..Len(s) |-> IF CharAt(s, k) = a THEN b ELSE CharAt(s, k)], 1, Len(s))

\* s.split(sep) for a single-character separator.
RECURSIVE Split(_, _)
Split(s, sep) ==
  IF Find(s, sep, 0) = -1 THEN <<s>> ELSE <<Before(s, sep)>> \o Split(After(s, sep), sep)

\* sep.join(parts)
RECURSIVE Join(_, _)
Join(parts, sep) ==
  IF parts = <<>> THEN ""
  ELSE IF Len(parts) = 1 THEN parts[1]
  ELSE parts[1] \o sep \o Join(Tail(parts), sep)

\* The first index in lo..hi at which s and t differ (they do differ there).
RECURSIVE FirstDiff(_, _, _, _)
FirstDiff(s, t, lo, hi) ==
  IF lo = hi THEN lo
  ELSE IF SubSeq(s, lo, (lo + hi) \div 2) # SubSeq(t, lo, (lo + hi) \div 2)
  THEN FirstDiff(s, t, lo, (lo + hi) \div 2)
  ELSE FirstDiff(s, t, ((lo + hi) \div 2) + 1, hi)

LessAt(s, t, i) == Ord(CharAt(s, i)) < Ord(CharAt(t, i))

\* Python's str ordering: lexicographic by code point; m is the length of
\* the shorter string.
StrLessWithin(s, t, m) ==
  IF SubSeq(s, 1, m) = SubSeq(t, 1, m) THEN Len(s) < Len(t)
  ELSE LessAt(s, t, FirstDiff(s, t, 1, m))

StrLess(s, t) == StrLessWithin(s, t, IF Len(s) < Len(t) THEN Len(s) ELSE Len(t))

\* sorted(S) of a set of strings: each string at the place given by the
\* number of strings below it.
SortedBy(S, below) == [k \in 1..Cardinality(S) |-> CHOOSE u \in S : below[u] = k - 1]

Sorted(S) == SortedBy(S, [u \in S |-> Cardinality({v \in S : StrLess(v, u)})])

SeqToSet(q) == {q[i] : i \in 1..Len(q)}

(***************************************************************************)
(* urllib.parse, as the script uses it.  The texts of the model hold no    *)
(* ';', no control character and no bracket in a host, so urlparse's       *)
(* params are always empty and urlparse is urlsplit.                       *)
(***************************************************************************)

SchemeChars ==
  {CharAt(AsciiHigh, i) : i \in 1..26} \cup {Chr(n) : n \in 65..90} \cup Digits \cup {"+", "-", "."}

\* urllib.parse.uses_relative and uses_netloc.
UsesRelative ==
  {"", "ftp", "http", "gopher", "nntp", "imap", "wais", "file", "https", "shttp", "mms",
   "prospero", "rtsp", "rtsps", "rtspu", "sftp", "svn", "svn+ssh", "ws", "wss"}
UsesNetloc ==
  {"", "ftp", "http", "gopher", "nntp", "telnet", "imap", "wais", "file", "mms", "https",
   "shttp", "snews", "prospero", "rtsp", "rtsps", "rtspu", "rsync", "svn", "svn+ssh", "sftp",
   "nfs", "git", "git+ssh", "ws", "wss", "itms-services"}

\* str.lstrip(" ")
RECURSIVE LStrip(_)
LStrip(s) == IF s # "" /\ CharAt(s, 1) = " " THEN LStrip(From(s, 1)) ELSE s

\* The offset of the first of '/', '?', '#' at or after start, or len(url).
NetlocDelimiters(url, start) ==
  {i \in start..(Len(url) - 1) : CharAt(url, i + 1) \in {"/", "?", "#"}}

NetlocEnd(url, start) ==
  IF NetlocDelimiters(url, start) = {} THEN Len(url) ELSE FirstOf(NetlocDelimiters(url, start))

SplitResult(scheme, netloc, path, query, fragment) ==
  [scheme |-> scheme, netloc |-> netloc, path |-> path, query |-> query,
   fragment |-> fragment]

\* urlsplit from the fragment on: url3 is what follows scheme and netloc.
SplitFragment(scheme, netloc, url3) ==
  SplitResult(scheme, netloc, Before(Before(url3, "#"), "?"), After(Before(url3, "#"), "?"),
              After(url3, "#"))

\* urlsplit from the netloc on: url2 is what follows the scheme.
SplitNetloc(scheme, url2) ==
  SplitFragment(scheme,
                IF UpTo(url2, 2) = "//" THEN SubSeq(url2, 3, NetlocEnd(url2, 2)) ELSE "",
                IF UpTo(url2, 2) = "//" THEN From(url2, NetlocEnd(url2, 2)) ELSE url2)

\* Whether url1[:i] is a scheme, i being url1.find(':').
HasScheme(url1, i) ==
  /\ i > 0
  /\ IsAlpha(CharAt(url1, 1))
  /\ \A k \in 1..i : CharAt(url1, k) \in SchemeChars

SplitScheme(url1, i, default) ==
  SplitNetloc(IF HasScheme(url1, i) THEN Lower(UpTo(url1, i)) ELSE default,
              IF HasScheme(url1, i) THEN From(url1, i + 1) ELSE url1)

SplitStripped(url1, default) == SplitScheme(url1, Find(url1, ":", 0), default)

\* urllib.parse.urlsplit(url, scheme=default)
UrlSplit(url0, default) == SplitStripped(LStrip(url0), default)

\* urllib.parse.urlunsplit((scheme, netloc, path, query, fragment))
UnsplitNetloc(u) ==
  IF u.netloc # "" \/ (u.scheme # "" /\ u.scheme \in UsesNetloc /\ UpTo(u.path, 2) # "//")
  THEN "//" \o u.netloc \o (IF u.path # "" /\ UpTo(u.path, 1) # "/" THEN "/" ELSE "") \o u.path
  ELSE u.path

UrlUnsplit(u) ==
  (IF u.scheme # "" THEN u.scheme \o ":" ELSE "") \o UnsplitNetloc(u)
    \o (IF u.query # "" THEN "?" \o u.query ELSE "")
    \o (IF u.fragment # "" THEN "#" \o u.fragment ELSE "")

\* The loop of urljoin that resolves '.' and '..' segments.
RECURSIVE ResolveSegments(_, _)
ResolveSegments(segments, resolved) ==
  IF segments = <<>> THEN resolved
  ELSE ResolveSegments(Tail(segments),
         IF Head(segments) = ".." THEN (IF resolved = <<>> THEN <<>>
                                        ELSE SubSeq(resolved, 1, Len(resolved) - 1))
         ELSE IF Head(segments) = "." THEN resolved
         ELSE Append(resolved, Head(segments)))

\* segments[1:-1] = filter(None, segments[1:-1])
FilterInner(segments) ==
  IF Len(segments) < 2 THEN segments
  ELSE <<segments[1]>>
       \o SelectSeq(SubSeq(segments, 2, Len(segments) - 1), LAMBDA seg : seg # "")
       \o <<segments[Len(segments)]>>

\* base_parts = bpath.split('/'), less a last part that is not empty.
BaseParts(parts) ==
  IF parts[Len(parts)] # "" THEN SubSeq(parts, 1, Len(parts) - 1) ELSE parts

JoinSegments(bpath, path) ==
  IF UpTo(path, 1) = "/" THEN Split(path, "/")
  ELSE FilterInner(BaseParts(Split(bpath, "/")) \o Split(path, "/"))

ResolvedParts(segments) ==
  ResolveSegments(segments, <<>>)
    \o (IF segments[Len(segments)] \in {".", ".."} THEN <<"">> ELSE <<>>)

OrSlash(path) == IF path = "" THEN "/" ELSE path

ResolvedPath(bpath, path) == OrSlash(Join(ResolvedParts(JoinSegments(bpath, path)), "/"))

\* urljoin once base and url are split and url is relative to base's netloc.
JoinRelative(b, r, netloc) ==
  UrlUnsplit(IF r.path = ""
             THEN SplitResult(r.scheme, netloc, b.path,
                              IF r.query = "" THEN b.query ELSE r.query, r.fragment)
             ELSE SplitResult(r.scheme, netloc, ResolvedPath(b.path, r.path), r.query,
                              r.fragment))

JoinParts(b, r, url) ==
  IF r.scheme # b.scheme \/ r.scheme \notin UsesRelative THEN url
  ELSE IF r.scheme \in UsesNetloc /\ r.netloc # "" THEN UrlUnsplit(r)
  ELSE JoinRelative(b, r, IF r.scheme \in UsesNetloc THEN b.netloc ELSE r.netloc)

JoinSplit(b, url) == JoinParts(b, UrlSplit(url, b.scheme), url)

\* urllib.parse.urljoin(base, url)
UrlJoin(base, url) ==
  IF base = "" THEN url
  ELSE IF url = "" THEN base
  ELSE JoinSplit(UrlSplit(base, ""), url)

HexDigits == "0123456789ABCDEF"

\* '%XX' for one byte.
PercentByte(n) == "%" \o CharAt(HexDigits, (n \div 16) + 1) \o CharAt(HexDigits, (n % 16) + 1)

\* The UTF-8 bytes of a character below U+0800, percent-encoded.
PercentChar(c) ==
  IF Ord(c) < 128 THEN PercentByte(Ord(c))
  ELSE PercentByte(192 + (Ord(c) \div 64)) \o PercentByte(128 + (Ord(c) % 64))

\* Characters urllib.parse.quote never encodes.
AlwaysSafe ==
  {CharAt(AsciiHigh, i) : i \in 1..26} \cup {Chr(n) : n \in 65..90} \cup Digits
    \cup {"_", ".", "-", "~"}

\* urllib.parse.quote(s, safe)
QuoteChar(c, safe) == IF c \in AlwaysSafe \cup safe THEN c ELSE PercentChar(c)

Quote(s, safe) == ConcatRange([k \in 1..Len(s) |-> QuoteChar(CharAt(s, k), safe)], 1, Len(s))

\* urllib.parse.quote_plus(s, safe)
QuotePlus(s, safe) ==
  IF Find(s, " ", 0) # -1 THEN Replace(Quote(s, safe \cup {" "}), " ", "+")
  ELSE Quote(s, safe)

(***************************************************************************)
(* json.loads, for the JSON the search-index files hold: an array of       *)
(* objects whose members are strings, numbers or null.  A value is         *)
(* [t, s]: t is "str", "num", "null", or "none" for what dict.get returns  *)
(* on a missing key.  An entry keeps the three keys the script reads.      *)
(***************************************************************************)

None == [t |-> "none", s |-> ""]
Str(s) == [t |-> "str", s |-> s]
Num(s) == [t |-> "num", s |-> s]
Null == [t |-> "null", s |-> ""]

EmptyEntry == [m |-> None, l |-> None, p |-> None]

Failed == [ok |-> FALSE, pos |-> 0, val |-> None]

\* The 1-based index of the first non-blank character at or after i.
RECURSIVE SkipWs(_, _)
SkipWs(s, i) == IF i <= Len(s) /\ CharAt(s, i) = " " THEN SkipWs(s, i + 1) ELSE i

RECURSIVE DigitsEnd(_, _)
DigitsEnd(s, i) == IF i <= Len(s) /\ CharAt(s, i) \in Digits THEN DigitsEnd(s, i + 1) ELSE i

Ok(pos, val) == [ok |-> TRUE, pos |-> pos, val |-> val]

\* A JSON string at i (no escapes occur): [ok, pos after it, its text].
JsonStringTo(s, i, close) ==
  IF close = -1 \/ Find(SubSeq(s, i + 1, close), "\\", 0) # -1 THEN Failed
  ELSE Ok(close + 2, Str(SubSeq(s, i + 1, close)))

JsonString(s, i) ==
  IF i > Len(s) \/ CharAt(s, i) # "\"" THEN Failed ELSE JsonStringTo(s, i, Find(s, "\"", i))

JsonNumberTo(s, i, end) == Ok(end, Num(SubSeq(s, i, end - 1)))

\* A member value at i: a string, a number or null.
JsonValue(s, i) ==
  IF i > Len(s) THEN Failed
  ELSE IF CharAt(s, i) = "\"" THEN JsonString(s, i)
  ELSE IF CharAt(s, i) \in Digits THEN JsonNumberTo(s, i, DigitsEnd(s, i))
  ELSE IF StartsWith(From(s, i - 1), "null") THEN Ok(i + 4, Null)
  ELSE Failed

SetKey(entry, key, val) ==
  IF key = "m" THEN [entry EXCEPT !.m = val]
  ELSE IF key = "l" THEN [entry EXCEPT !.l = val]
  ELSE IF key = "p" THEN [entry EXCEPT !.p = val]
  ELSE entry

\* The members of an object from i on, i at a key: [ok, pos after '}', entry].
RECURSIVE JsonMembers(_, _, _)
MemberEnd(s, next, entry) ==
  IF next > Len(s) THEN Failed
  ELSE IF CharAt(s, next) = "}" THEN Ok(next + 1, entry)
  ELSE IF CharAt(s, next) = "," THEN JsonMembers(s, SkipWs(s, next + 1), entry)
  ELSE Failed

MemberValue(s, key, val, entry) ==
  IF ~val.ok THEN Failed
  ELSE MemberEnd(s, SkipWs(s, val.pos), SetKey(entry, key.val.s, val.val))

MemberColon(s, key, colon, entry) ==
  IF colon > Len(s) \/ CharAt(s, colon) # ":" THEN Failed
  ELSE MemberValue(s, key, JsonValue(s, SkipWs(s, colon + 1)), entry)

MemberKey(s, key, entry) ==
  IF ~key.ok THEN Failed ELSE MemberColon(s, key, SkipWs(s, key.pos), entry)

JsonMembers(s, i, entry) == MemberKey(s, JsonString(s, i), entry)

JsonObjectAt(s, j) ==
  IF j <= Len(s) /\ CharAt(s, j) = "}" THEN Ok(j + 1, EmptyEntry)
  ELSE JsonMembers(s, j, EmptyEntry)

JsonObject(s, i) ==
  IF i > Len(s) \/ CharAt(s, i) # "{" THEN Failed ELSE JsonObjectAt(s, SkipWs(s, i + 1))

NoList == [ok |-> FALSE, pos |-> 0, val |-> <<>>]

\* The elements of an array from i on, i at an element: [ok, pos after ']', list].
RECURSIVE JsonElements(_, _, _)
ElementEnd(s, next, list) ==
  IF next > Len(s) THEN NoList
  ELSE IF CharAt(s, next) = "]" THEN Ok(next + 1, list)
  ELSE IF CharAt(s, next) = "," THEN JsonElements(s, SkipWs(s, next + 1), list)
  ELSE NoList

ElementObject(s, obj, list) ==
  IF ~obj.ok THEN NoList ELSE ElementEnd(s, SkipWs(s, obj.pos), Append(list, obj.val))

JsonElements(s, i, list) == ElementObject(s, JsonObject(s, i), list)

JsonArrayAt(s, j) ==
  IF j <= Len(s) /\ CharAt(s, j) = "]" THEN Ok(j + 1, <<>>) ELSE JsonElements(s, j, <<>>)

JsonArray(s, i) ==
  IF i > Len(s) \/ CharAt(s, i) # "[" THEN NoList ELSE JsonArrayAt(s, SkipWs(s, i + 1))

\* The array must be all of the text: json.loads raises on extra data.
JsonWhole(s, arr) ==
  IF arr.ok /\ SkipWs(s, arr.pos) > Len(s) THEN [ok |-> TRUE, val |-> arr.val]
  ELSE [ok |-> FALSE, val |-> <<>>]

\* json.loads(s): [ok, val]; ok is FALSE where json.loads raises.
JsonLoads(s) == JsonWhole(s, JsonArray(s, SkipWs(s, 1)))

(***************************************************************************)
(* scripts/oracle_javadoc_seed.py                                          *)
(***************************************************************************)

\* str.strip() (the texts hold no whitespace but the blank).
RECURSIVE RStrip(_)
RStrip(s) == IF s # "" /\ CharAt(s, Len(s)) = " " THEN RStrip(UpTo(s, Len(s) - 1)) ELSE s
Strip(s) == RStrip(LStrip(s))

\* Whether blanks and a ';' follow the 1-based index e of text.
SemicolonAfter(text, e) ==
  SkipWs(text, e + 1) <= Len(text) /\ CharAt(text, SkipWs(text, e + 1)) = ";"

\* The last index e >= from with text[e] = ']' and SemicolonAfter, or 0.
Closes(text, e, from) == {k \in from..e : CharAt(text, k) = "]" /\ SemicolonAfter(text, k)}

LastClose(text, e, from) ==
  IF Closes(text, e, from) = {} THEN 0
  ELSE CHOOSE k \in Closes(text, e, from) : \A j \in Closes(text, e, from) : j <= k

NoMatch == [ok |-> FALSE, group |-> ""]

MatchClose(text, open, close) ==
  IF close = 0 THEN NoMatch ELSE [ok |-> TRUE, group |-> SubSeq(text, open, close)]

MatchOpen(text, open) ==
  IF open > Len(text) \/ CharAt(text, open) # "[" THEN NoMatch
  ELSE MatchClose(text, open, LastClose(text, Len(text), open + 1))

MatchEquals(text, eqAt) ==
  IF eqAt > Len(text) \/ CharAt(text, eqAt) # "=" THEN NoMatch
  ELSE MatchOpen(text, SkipWs(text, eqAt + 1))

MatchName(text, var_name, nameAt) ==
  IF ~StartsWith(From(text, nameAt - 1), var_name) THEN NoMatch
  ELSE MatchEquals(text, SkipWs(text, nameAt + Len(var_name)))

\* The match of ^\s*<var_name>\s*=\s*(\[\s*.*\s*\])\s*;.*$ (DOTALL) on text:
\* [ok, group]: group 1 runs from the first '[' to the last ']' that blanks
\* and a ';' follow, the two '.*' being greedy.
AssignedArrayMatch(text, var_name) == MatchName(text, var_name, SkipWs(text, 1))

LoadMatch(match) == IF ~match.ok THEN [ok |-> FALSE, val |-> <<>>] ELSE JsonLoads(match.group)

\* parse_assigned_json_array(js_text, var_name): [ok, val]; ok is FALSE where
\* it raises (ValueError of the format check, or json.loads's error).
parse_assigned_json_array(js_text, var_name) ==
  LoadMatch(AssignedArrayMatch(Strip(js_text), var_name))

\* isinstance(v, str) and v
IsNonEmptyStr(v) == v.t = "str" /\ v.s # ""

\* FoldEntry keeping the first module seen for a package.
FoldEntryKeepFirst(mapping, entry) ==
  IF IsNonEmptyStr(entry.m) /\ IsNonEmptyStr(entry.l) /\ entry.l.s \notin DOMAIN mapping
  THEN [k \in DOMAIN mapping \cup {entry.l.s} |->
          IF k = entry.l.s THEN entry.m.s ELSE mapping[k]]
  ELSE mapping

\* One iteration of build_package_to_module's loop.  A mapping is a function
\* from package names to module names.
FoldEntry(mapping, entry) ==
  IF IsNonEmptyStr(entry.m) /\ IsNonEmptyStr(entry.l)
  THEN [k \in DOMAIN mapping \cup {entry.l.s} |->
          IF k = entry.l.s THEN entry.m.s ELSE mapping[k]]
  ELSE mapping

EmptyMapping == [k \in {} |-> ""]

RECURSIVE FoldEntries(_, _)
FoldEntries(mapping, entries) ==
  IF entries = <<>> THEN mapping
  ELSE FoldEntries(FoldEntry(mapping, Head(entries)), Tail(entries))

build_package_to_module(package_index) == FoldEntries(EmptyMapping, package_index)

\* package_path with the replacement of the dots forgotten.
package_pathKept(package_name) == package_name

package_path(package_name) == Replace(package_name, ".", "/")

EncodeParts(parsed) ==
  UrlUnsplit([parsed EXCEPT !.path = Quote(parsed.path, {"/", "-", ".", "_", "~"}),
                            !.query = QuotePlus(parsed.query, {"=", "&"})])

encode_url(url) == EncodeParts(UrlSplit(url, ""))

HrefPrefix == "href=\"index-"

\* Whether  \\.html"  of the pattern matches at e: a backslash, any
\* character, then html" (in the raw pattern, \\ is a literal backslash and
\* the dot after it matches any character).
HrefTailAt(html, d, e) ==
  /\ e > d
  /\ e + 6 <= Len(html)
  /\ CharAt(html, e) = "\\"
  /\ SubSeq(html, e + 2, e + 6) = "html\""

HrefDigitsTo(html, d, e) == IF HrefTailAt(html, d, e) THEN e + 6 ELSE 0

\* The end (1-based, inclusive) of a match of  href="(index-[0-9]+\\.html)"
\* starting at i, or 0.
IndexHrefMatchEnd(html, i) ==
  IF StartsWith(From(html, i - 1), HrefPrefix)
  THEN HrefDigitsTo(html, i + Len(HrefPrefix), DigitsEnd(html, i + Len(HrefPrefix)))
  ELSE 0

\* re.findall(pattern, html): the group of every match, left to right.
RECURSIVE IndexHrefFindAll(_, _)
FindAllFrom(html, i, e) ==
  IF e = 0 THEN IndexHrefFindAll(html, i + 1)
  ELSE {SubSeq(html, i + 6, e - 1)} \cup IndexHrefFindAll(html, e + 1)

\* The search goes on at the next place (0-based offset at) where the
\* pattern's literal head occurs; no match starts anywhere else.
FindAllAt(html, at) ==
  IF at = -1 THEN {} ELSE FindAllFrom(html, at + 1, IndexHrefMatchEnd(html, at + 1))

IndexHrefFindAll(html, i) == FindAllAt(html, Find(html, HrefPrefix, i - 1))

parse_index_files(index_1_html) ==
  {m \in IndexHrefFindAll(index_1_html, 1) : StartsWith(m, "index-") /\ EndsWith(m, ".html")}

\* JavadocIndexUrls
package_index_url(base) == UrlJoin(base, "package-search-index.js")
type_index_url(base) == UrlJoin(base, "type-search-index.js")
index_file_1_url(base) == UrlJoin(base, "index-files/index-1.html")

normalized_base(base) == IF EndsWith(base, "/") THEN base ELSE base \o "/"

root_pages ==
  <<"index.html", "overview-tree.html", "preview-list.html", "new-list.html",
    "deprecated-list.html", "search.html", "help-doc.html", "allpackages-index.html",
    "allclasses-index.html", "allclasses.html", "constant-values.html",
    "serialized-form.html", "external-specs.html", "restricted-list.html",
    "search-tags.html", "system-properties.html">>

RootPageUrls(base) == {UrlJoin(base, root_pages[k]) : k \in 1..Len(root_pages)}

\* IndexFiles with the unconditional index_files.add("index-1.html") dropped.
IndexFilesParsedOnly(html) == parse_index_files(html)

\* index_files = parse_index_files(index_1_html); index_files.add("index-1.html")
IndexFiles(html) == parse_index_files(html) \cup {"index-1.html"}

IndexFileUrls(base, html) == {UrlJoin(base, "index-files/" \o idx) : idx \in IndexFiles(html)}

Modules(mapping) == {mapping[k] : k \in DOMAIN mapping}

ModuleUrls(base, mapping) ==
  {UrlJoin(base, module \o "/module-summary.html") : module \in Modules(mapping)}

PackagePages == {"package-summary.html", "package-tree.html", "package-use.html"}

PackageUrls(base, mapping) ==
  {UrlJoin(base, mapping[package] \o "/" \o package_path(package) \o "/" \o page) :
     package \in DOMAIN mapping, page \in PackagePages}

\* The two URLs a type contributes once its module is known.
TypeUrls(base, module, package, type_name) ==
  {UrlJoin(base, module \o "/" \o package_path(package) \o "/" \o type_name \o ".html"),
   UrlJoin(base, module \o "/" \o package_path(package) \o "/class-use/" \o type_name \o ".html")}

(***************************************************************************)
(* State of one run of oracle_javadoc_seed.py (main and                    *)
(* generate_seed_urls) and of what surrounds it.                           *)
(***************************************************************************)
VARIABLES
  pc,                 \* the statement the run is at
  site,               \* the documentation site: URL |-> body of what it serves
  base_url,           \* --base-url
  fetched,            \* the URLs fetch_text was called with, in order
  package_js,         \* body of package-search-index.js
  type_js,            \* body of type-search-index.js
  index_1_html,       \* body of index-files/index-1.html
  package_index,      \* parsed packageSearchIndex
  type_index,         \* parsed typeSearchIndex
  package_to_module,  \* the package -> module mapping
  urls,               \* the set of seed URLs, unencoded
  type_pos,           \* number of type_index entries the type loop has consumed
  missing_modules,    \* the missing-module counter
  encoded,            \* the list generate_seed_urls returns
  output_opened,      \* whether main has opened --output for writing
  output_file,        \* the lines of the file at --output
  fold_pos            \* number of package_index entries build_package_to_module has consumed

(***************************************************************************)
(* State of one call of recover_cache.py's analyze_java_serialized_data.   *)
(***************************************************************************)
VARIABLES
  data,               \* the bytes read from raw_file
  pos,                \* the scan loop's pos
  objects,            \* the offsets found so far
  obj_i,              \* the index i of the loop over range(len(objects) - 1, -1, -1)
  truncated_raw,      \* the file at truncated_file: [written, content]
  truncated_gz,       \* the file at truncated_gz, uncompressed: [written, content]
  result,             \* what the call returned, "pending" before it has
  write_failed        \* whether a write has raised into the bare except

seedVars ==
  <<pc, site, base_url, fetched, package_js, type_js, index_1_html, package_index,
    type_index, package_to_module, urls, type_pos, missing_modules, encoded,
    output_opened, output_file, fold_pos>>

recoverVars == <<data, pos, objects, obj_i, truncated_raw, truncated_gz, result, write_failed>>

vars == <<seedVars, recoverVars>>

(***************************************************************************)
(* The inputs of a run                                                     *)
(***************************************************************************)

\* Most entries of a package index / of a type index, and most links of the
\* letter-index page, that a run is given.
MaxPackages == 2
MaxTypes == 2
MaxLinks == 1

SiteRoot == "https://example.com/docs/api/"

BaseUrls == {SiteRoot, "https://example.com/docs/api", "https://example.com/docs/api?v=1"}

\* Entries of package-search-index.js: two packages in two modules, one of
\* them named by a Java identifier outside ASCII, and the "All Packages"
\* entry javadoc emits without a module.
PackageEntries ==
  {[EmptyEntry EXCEPT !.m = Str("java.base"), !.l = Str("java.lang")],
   [EmptyEntry EXCEPT !.m = Str("java.se"), !.l = Str("caf" \o EAcute)],
   [EmptyEntry EXCEPT !.l = Str("All Packages")]}

\* Entries whose module names hold a colon, which urljoin and urlsplit read
\* as the end of a URL scheme.
ColonPackageEntries ==
  {[EmptyEntry EXCEPT !.m = Str("Jdk:net"), !.l = Str("java.net")],
   [EmptyEntry EXCEPT !.m = Str("jdk:net"), !.l = Str("java.nio")]}

\* Entries of type-search-index.js: a type of a mapped package, a type named
\* outside ASCII, a type of a package the package index lacks, an entry of
\* that package without a type name, and the "All Classes and Interfaces"
\* entry javadoc emits without a package.
TypeEntries ==
  {[EmptyEntry EXCEPT !.p = Str("java.lang"), !.l = Str("Object")],
   [EmptyEntry EXCEPT !.p = Str("java.lang"), !.l = Str(EAcute \o "tat")],
   [EmptyEntry EXCEPT !.p = Str("java.nio"), !.l = Str("Buffer")],
   [EmptyEntry EXCEPT !.p = Str("java.nio")],
   [EmptyEntry EXCEPT !.l = Str("All Classes and Interfaces")]}

\* Links of the letter-index page: as javadoc writes them, and with the
\* backslash the script's pattern asks for.
IndexLinks ==
  {"<a href=\"index-1.html\">A</a>", "<a href=\"index-2.html\">B</a>",
   "<a href=\"index-3\\.html\">C</a>"}

RECURSIVE SeqsUpTo(_, _)
SeqsUpTo(S, n) ==
  IF n = 0 THEN {<<>>}
  ELSE LET shorter == SeqsUpTo(S, n - 1)
       IN shorter \cup {Append(q, e) : q \in shorter, e \in S}

\* json.dumps of a value, of an entry, of a list of entries.
ValueText(v) ==
  IF v.t = "str" THEN "\"" \o v.s \o "\"" ELSE IF v.t = "num" THEN v.s ELSE "null"

EntryText(entry) ==
  "{" \o Join(SelectSeq(<<IF entry.m.t = "none" THEN "" ELSE "\"m\":" \o ValueText(entry.m),
                         IF entry.p.t = "none" THEN "" ELSE "\"p\":" \o ValueText(entry.p),
                         IF entry.l.t = "none" THEN "" ELSE "\"l\":" \o ValueText(entry.l)>>,
                        LAMBDA member : member # ""), ",") \o "}"

ArrayText(entries) == "[" \o Join([k \in 1..Len(entries) |-> EntryText(entries[k])], ",") \o "]"

\* A search-index file as javadoc writes it.
IndexJs(var_name, entries) == var_name \o " = " \o ArrayText(entries) \o ";updateSearchResults();"

PackageJsTexts ==
  {IndexJs("packageSearchIndex", q) : q \in SeqsUpTo(PackageEntries, MaxPackages)}

TypeJsTexts == {IndexJs("typeSearchIndex", q) : q \in SeqsUpTo(TypeEntries, MaxTypes)}

IndexPages == {Join(q, " ") : q \in SeqsUpTo(IndexLinks, MaxLinks)}

\* What a site answers when a search index has moved or is cut short.
BrokenJsTexts == {"<html>moved</html>", "typeSearchIndex = [{\"p\":\"java.lang\",\"l\":\"Object\"}"}

DefaultPackageJs ==
  IndexJs("packageSearchIndex", <<[EmptyEntry EXCEPT !.m = Str("java.base"), !.l = Str("java.lang")]>>)
DefaultTypeJs ==
  IndexJs("typeSearchIndex", <<[EmptyEntry EXCEPT !.p = Str("java.lang"), !.l = Str("Object")]>>)
DefaultPage == "<a href=\"index-1.html\">A</a> <a href=\"index-2.html\">B</a>"

Resources == {"package-search-index.js", "type-search-index.js", "index-files/index-1.html"}

\* A site that serves the three resources under SiteRoot, but for those down.
SiteOf(pkg, type, page, down) ==
  [u \in {SiteRoot \o r : r \in Resources \ down} |->
     IF u = SiteRoot \o "package-search-index.js" THEN pkg
     ELSE IF u = SiteRoot \o "type-search-index.js" THEN type
     ELSE page]

ColonPackageJsTexts ==
  {IndexJs("packageSearchIndex", q) : q \in SeqsUpTo(ColonPackageEntries, MaxPackages)}

EmptyPackageJs == IndexJs("packageSearchIndex", <<>>)

\* Type indexes of at most one entry.
ShortTypeJsTexts == {IndexJs("typeSearchIndex", q) : q \in SeqsUpTo(TypeEntries, 1)}

\* The runs explored: every package index with every short type index, every
\* type index with the one-package index and with the empty one, every
\* package index with colons in its module names, every letter-index page,
\* every base URL, every resource down, every broken search index.
Runs ==
  {[site |-> SiteOf(pkg, type, DefaultPage, {}), base |-> SiteRoot] :
     pkg \in PackageJsTexts, type \in ShortTypeJsTexts}
  \cup {[site |-> SiteOf(pkg, type, DefaultPage, {}), base |-> SiteRoot] :
          pkg \in {DefaultPackageJs, EmptyPackageJs}, type \in TypeJsTexts}
  \cup {[site |-> SiteOf(pkg, DefaultTypeJs, DefaultPage, {}), base |-> SiteRoot] :
          pkg \in ColonPackageJsTexts}
  \cup {[site |-> SiteOf(DefaultPackageJs, DefaultTypeJs, page, {}), base |-> base] :
          page \in IndexPages, base \in BaseUrls}
  \cup {[site |-> SiteOf(DefaultPackageJs, DefaultTypeJs, DefaultPage, {r}), base |-> SiteRoot] :
          r \in Resources}
  \cup {[site |-> SiteOf(pkg, type, DefaultPage, {}), base |-> SiteRoot] :
          pkg \in {DefaultPackageJs} \cup BrokenJsTexts,
          type \in {DefaultTypeJs} \cup BrokenJsTexts}

StaleOutput == <<"https://example.com/stale.html">>

\* What every run starts from, whatever its inputs.
Fresh ==
  /\ fetched = <<>>
  /\ package_js = ""
  /\ type_js = ""
  /\ index_1_html = ""
  /\ package_index = <<>>
  /\ type_index = <<>>
  /\ package_to_module = EmptyMapping
  /\ urls = {}
  /\ type_pos = 0
  /\ missing_modules = 0
  /\ encoded = <<>>
  /\ output_opened = FALSE
  /\ output_file = StaleOutput
  /\ fold_pos = 0

NoFile == [written |-> FALSE, content |-> <<>>]

\* The recovery script has not been started.
RecoverIdle ==
  /\ data = <<>>
  /\ pos = 0
  /\ objects = <<>>
  /\ obj_i = 0
  /\ truncated_raw = NoFile
  /\ truncated_gz = NoFile
  /\ result = "pending"
  /\ write_failed = FALSE

Init ==
  /\ pc = "fetch_package"
  /\ \E run \in Runs : site = run.site /\ base_url = run.base
  /\ Fresh
  /\ RecoverIdle

(***************************************************************************)
(* generate_seed_urls and main, statement by statement                     *)
(***************************************************************************)

Base == normalized_base(base_url)

\* fetch_text(url) raises unless the site serves url.
FetchPackageIndex ==
  /\ pc = "fetch_package"
  /\ fetched' = Append(fetched, package_index_url(Base))
  /\ \/ /\ package_index_url(Base) \in DOMAIN site
        /\ package_js' = site[package_index_url(Base)]
        /\ pc' = "fetch_type"
     \/ /\ package_index_url(Base) \notin DOMAIN site
        /\ pc' = "aborted"
        /\ UNCHANGED package_js
  /\ UNCHANGED <<site, base_url, type_js, index_1_html, package_index, type_index,
                 package_to_module, urls, type_pos, missing_modules, encoded,
                 output_opened, output_file, fold_pos, recoverVars>>

FetchTypeIndex ==
  /\ pc = "fetch_type"
  /\ fetched' = Append(fetched, type_index_url(Base))
  /\ \/ /\ type_index_url(Base) \in DOMAIN site
        /\ type_js' = site[type_index_url(Base)]
        /\ pc' = "fetch_index_1"
     \/ /\ type_index_url(Base) \notin DOMAIN site
        /\ pc' = "aborted"
        /\ UNCHANGED type_js
  /\ UNCHANGED <<site, base_url, package_js, index_1_html, package_index, type_index,
                 package_to_module, urls, type_pos, missing_modules, encoded,
                 output_opened, output_file, fold_pos, recoverVars>>

FetchIndexFile1 ==
  /\ pc = "fetch_index_1"
  /\ fetched' = Append(fetched, index_file_1_url(Base))
  /\ \/ /\ index_file_1_url(Base) \in DOMAIN site
        /\ index_1_html' = site[index_file_1_url(Base)]
        /\ pc' = "parse_package"
     \/ /\ index_file_1_url(Base) \notin DOMAIN site
        /\ pc' = "aborted"
        /\ UNCHANGED index_1_html
  /\ UNCHANGED <<site, base_url, package_js, type_js, package_index, type_index,
                 package_to_module, urls, type_pos, missing_modules, encoded,
                 output_opened, output_file, fold_pos, recoverVars>>

ParsePackageIndex ==
  /\ pc = "parse_package"
  /\ LET parsed == parse_assigned_json_array(package_js, "packageSearchIndex")
     IN \/ /\ parsed.ok
           /\ package_index' = parsed.val
           /\ pc' = "parse_type"
        \/ /\ ~parsed.ok
           /\ pc' = "aborted"
           /\ UNCHANGED package_index
  /\ UNCHANGED <<site, base_url, fetched, package_js, type_js, index_1_html, type_index,
                 package_to_module, urls, type_pos, missing_modules, encoded,
                 output_opened, output_file, fold_pos, recoverVars>>

\* ParseTypeIndex swallowing the parser's error and going on with no types.
ParseTypeIndexLenient ==
  /\ pc = "parse_type"
  /\ type_index' = parse_assigned_json_array(type_js, "typeSearchIndex").val
  /\ pc' = "derive"
  /\ UNCHANGED <<site, base_url, fetched, package_js, type_js, index_1_html, package_index,
                 package_to_module, urls, type_pos, missing_modules, encoded,
                 output_opened, output_file, fold_pos, recoverVars>>

ParseTypeIndex ==
  /\ pc = "parse_type"
  /\ LET parsed == parse_assigned_json_array(type_js, "typeSearchIndex")
     IN \/ /\ parsed.ok
           /\ type_index' = parsed.val
           /\ pc' = "derive"
        \/ /\ ~parsed.ok
           /\ pc' = "aborted"
           /\ UNCHANGED type_index
  /\ UNCHANGED <<site, base_url, fetched, package_js, type_js, index_1_html, package_index,
                 package_to_module, urls, type_pos, missing_modules, encoded,
                 output_opened, output_file, fold_pos, recoverVars>>

\* Lines 105-154: the mapping, then the root, index, module and package pages.
DerivePages ==
  /\ pc = "derive"
  /\ package_to_module' = build_package_to_module(package_index)
  /\ urls' = RootPageUrls(Base) \cup IndexFileUrls(Base, index_1_html)
               \cup ModuleUrls(Base, package_to_module')
               \cup PackageUrls(Base, package_to_module')
  /\ missing_modules' = 0
  /\ type_pos' = 0
  /\ pc' = "types"
  /\ UNCHANGED <<site, base_url, fetched, package_js, type_js, index_1_html, package_index,
                 type_index, encoded, output_opened, output_file, fold_pos, recoverVars>>

\* TypeSkipped with the validation of line 158 dropped.
TypeSkippedNever(entry) == FALSE

\* Line 158: the entry lacks a package or a type name that is a non-empty
\* string, and the loop continues.
TypeSkipped(entry) == ~IsNonEmptyStr(entry.p) \/ ~IsNonEmptyStr(entry.l)

\* One iteration of the loop over type_index (lines 155-167).
TypeStep ==
  /\ pc = "types"
  /\ type_pos < Len(type_index)
  /\ type_pos' = type_pos + 1
  /\ LET entry == type_index[type_pos + 1]
     IN IF TypeSkipped(entry)
        THEN UNCHANGED <<urls, missing_modules>>
        ELSE IF entry.p.s \notin DOMAIN package_to_module
        THEN /\ missing_modules' = missing_modules + 1
             /\ UNCHANGED urls
        ELSE /\ urls' = urls \cup TypeUrls(Base, package_to_module[entry.p.s], entry.p.s,
                                            entry.l.s)
             /\ UNCHANGED missing_modules
  /\ UNCHANGED <<pc, site, base_url, fetched, package_js, type_js, index_1_html,
                 package_index, type_index, package_to_module, encoded, output_opened,
                 output_file, fold_pos, recoverVars>>

\* encoded = [encode_url(u) for u in sorted(urls)]
EncodeSorted(S) == LET sorted == Sorted(S) IN [k \in 1..Len(sorted) |-> encode_url(sorted[k])]

EncodeUrls ==
  /\ pc = "types"
  /\ type_pos = Len(type_index)
  /\ encoded' = EncodeSorted(urls)
  /\ pc' = "write"
  /\ UNCHANGED <<site, base_url, fetched, package_js, type_js, index_1_html, package_index,
                 type_index, package_to_module, urls, type_pos, missing_modules,
                 output_opened, output_file, fold_pos, recoverVars>>

\* main, lines 187-190: open(args.output, "w") and one line per URL.
WriteOutput ==
  /\ pc = "write"
  /\ output_opened' = TRUE
  /\ output_file' = encoded
  /\ pc' = "done"
  /\ UNCHANGED <<site, base_url, fetched, package_js, type_js, index_1_html, package_index,
                 type_index, package_to_module, urls, type_pos, missing_modules, encoded,
                 fold_pos, recoverVars>>

Next ==
  \/ FetchPackageIndex
  \/ FetchTypeIndex
  \/ FetchIndexFile1
  \/ ParsePackageIndex
  \/ ParseTypeIndex
  \/ DerivePages
  \/ TypeStep
  \/ EncodeUrls
  \/ WriteOutput

Spec == Init /\ [][Next]_vars

(***************************************************************************)
(* Properties of a run of the seed script                                  *)
(***************************************************************************)

Lines == SeqToSet(output_file)

\* <base>/<rest>, with one slash between the two.
UrlUnder(base, rest) == (IF EndsWith(base, "/") THEN base ELSE base \o "/") \o rest

\* A name of ASCII letters, digits, '_', '-', '~' in non-empty components
\* separated by dots.
PlainName(name) ==
  /\ \A k \in 1..Len(name) : CharAt(name, k) \in AlwaysSafe
  /\ \A k \in 1..Len(Split(name, ".")) : Split(name, ".")[k] # ""

PlainPath(parts) ==
  /\ parts[1] # ""
  /\ \A k \in 2..Len(parts) :
       /\ parts[k] \notin {".", ".."}
       /\ parts[k] = "" => k = Len(parts)

\* What follows the '://' of a URL.
AfterScheme(base) == From(base, Find(base, "://", 0) + 3)

\* An absolute http(s) URL of a host and a path of plain segments, with no
\* query and no fragment.
PlainBase(base) ==
  /\ StartsWith(base, "https://") \/ StartsWith(base, "http://")
  /\ \A k \in 1..Len(AfterScheme(base)) : CharAt(AfterScheme(base), k) \in AlwaysSafe \cup {"/"}
  /\ PlainPath(Split(AfterScheme(base), "/"))

\* A type-index record with a package and a type name that are non-empty
\* strings, whose package is no key of the mapping.
C1_Counted(entry) ==
  /\ entry.p.t = "str" /\ entry.p.s # ""
  /\ entry.l.t = "str" /\ entry.l.s # ""
  /\ entry.p.s \notin DOMAIN package_to_module

\* A type-index record that declares a package which is no key of the
\* mapping.
C1_PackageAbsent(entry) == entry.p.t = "str" /\ entry.p.s \notin DOMAIN package_to_module

\* C1 as stated: after the run the missing-module counter equals the number
\* of type-index records whose package is not a key of the mapping.
C1_AsStated ==
  pc \in {"write", "done"} =>
    missing_modules = Cardinality({k \in 1..Len(type_index) : C1_PackageAbsent(type_index[k])})

C1_CountSoFar ==
  pc \in {"types", "write", "done"} =>
    missing_modules = Cardinality({k \in 1..type_pos : C1_Counted(type_index[k])})

C1_OneRecord ==
  (pc = "types" /\ type_pos' = type_pos + 1) =>
    IF C1_Counted(type_index[type_pos'])
    THEN urls' = urls /\ missing_modules' = missing_modules + 1
    ELSE missing_modules' = missing_modules

\* C1, amended: processing a type-index record that has a non-empty string
\* package and type name and whose package is no key of the mapping adds no
\* URL and increments the missing-module counter by exactly one; any other
\* record (one without a package or without a type name) leaves the counter
\* alone; so the counter always equals the number of such records among
\* those processed, and after the run among all.
C1_MissingModulesCounted == []C1_CountSoFar /\ [][C1_OneRecord]_vars

\* A run that counted one record and skipped, uncounted, another that
\* declares a package which is no key of the mapping either.
C1_Witness ==
  /\ pc = "done"
  /\ missing_modules = 1
  /\ Len(type_index) = 2
  /\ \A k \in 1..2 : C1_PackageAbsent(type_index[k])

C2_Pages(base, module, package) ==
  {UrlUnder(base, module \o "/module-summary.html")}
    \cup {UrlUnder(base, module \o "/" \o Replace(package, ".", "/") \o "/" \o page) :
            page \in {"package-summary.html", "package-tree.html", "package-use.html"}}

\* C2 as stated: for every package index and base URL, the output holds the
\* module-summary URL and the three package URLs of every mapped package.
C2_AsStated ==
  pc = "done" =>
    \A package \in DOMAIN package_to_module :
      C2_Pages(base_url, package_to_module[package], package) \subseteq Lines

\* C2, amended: the same, for a base URL that is an absolute http(s) URL of
\* plain path segments without query or fragment, and for module and package
\* names of ASCII letters, digits, '_', '-', '~' in non-empty dot-separated
\* components (other names come out percent-encoded or resolved as URL
\* references).
C2_PackagePagesEmitted ==
  pc = "done" =>
    \A package \in DOMAIN package_to_module :
      (PlainBase(base_url) /\ PlainName(package) /\ PlainName(package_to_module[package]))
        => C2_Pages(base_url, package_to_module[package], package) \subseteq Lines

\* The spec's example, from a base URL given without its final slash.
C2_Witness ==
  /\ pc = "done"
  /\ base_url = "https://example.com/docs/api"
  /\ "java.lang" \in DOMAIN package_to_module
  /\ package_to_module["java.lang"] = "java.base"
  /\ "https://example.com/docs/api/java.base/module-summary.html" \in Lines
  /\ "https://example.com/docs/api/java.base/java/lang/package-summary.html" \in Lines

\* C3: the lines of the output file are in ascending order.
C3_OutputSorted ==
  pc = "done" =>
    \A k \in 1..(Len(output_file) - 1) : ~StrLess(output_file[k + 1], output_file[k])

C4_Requested == {fetched[k] : k \in 1..Len(fetched)}

\* C4: a failed fetch or parse aborts the run there, nothing is fetched twice
\* or after the failure, an aborted run takes no further step, and the
\* output file is opened and written only once every step has completed;
\* until then it keeps its prior content.
C4_FailFast ==
  /\ output_opened => pc = "done"
  /\ pc # "done" => output_file = StaleOutput
  /\ pc = "done" =>
       /\ output_file = encoded
       /\ encoded = EncodeSorted(urls)
       /\ type_pos = Len(type_index)
       /\ Len(fetched) = 3
  /\ Cardinality(C4_Requested) = Len(fetched)
  /\ \A k \in 1..Len(fetched) :
       fetched[k] \notin DOMAIN site => (pc = "aborted" /\ k = Len(fetched))
  /\ pc \in {"parse_type", "derive", "types", "write", "done"} =>
       parse_assigned_json_array(package_js, "packageSearchIndex").ok
  /\ pc \in {"derive", "types", "write", "done"} =>
       parse_assigned_json_array(type_js, "typeSearchIndex").ok
  /\ pc = "aborted" => ~ENABLED Next

\* A run aborted by the type index's parse, all three fetches done.
C4_Witness ==
  /\ pc = "aborted"
  /\ Len(fetched) = 3
  /\ C4_Requested \subseteq DOMAIN site
  /\ parse_assigned_json_array(package_js, "packageSearchIndex").ok
  /\ ~parse_assigned_json_array(type_js, "typeSearchIndex").ok
  /\ output_file = StaleOutput

\* The file names index-<integer>.html that html holds as a link target,
\* href="index-N.html".
C5_LinkAt(html, i, e) ==
  /\ StartsWith(From(html, i - 1), HrefPrefix)
  /\ e >= i + Len(HrefPrefix)
  /\ \A k \in (i + Len(HrefPrefix))..e : CharAt(html, k) \in Digits
  /\ StartsWith(From(html, e), ".html\"")

C5_HrefTargets(html) ==
  {SubSeq(html, ie[1] + 6, ie[2] + 5) :
     ie \in {ie \in (1..Len(html)) \X (1..Len(html)) : C5_LinkAt(html, ie[1], ie[2])}}

\* C5: parse_index_files returns exactly the file names index-<integer>.html
\* that the page holds as link targets, and the output has a URL under
\* index-files/ for each.
C5_IndexLinksFound ==
  pc = "done" =>
    /\ parse_index_files(index_1_html) = C5_HrefTargets(index_1_html)
    /\ \A name \in C5_HrefTargets(index_1_html) :
         UrlUnder(base_url, "index-files/" \o name) \in Lines

\* C7: <base>/index-files/index-1.html is in the output whatever the
\* letter-index page holds.
C7_IndexOneEmitted == pc = "done" => UrlUnder(base_url, "index-files/index-1.html") \in Lines

\* A finished run whose letter-index page held no link at all.
C7_Witness ==
  /\ pc = "done"
  /\ index_1_html = ""
  /\ UrlUnder(base_url, "index-files/index-1.html") \in Lines

\* C9: no URL occurs on two lines of the output.
C9_NoDuplicateLines ==
  pc = "done" =>
    \A i, j \in 1..Len(output_file) : i < j => output_file[i] # output_file[j]

(***************************************************************************)
(* parse_assigned_json_array alone, on texts '<identifier> = <array>;'     *)
(* followed by statements.                                                 *)
(***************************************************************************)

\* Most statements that follow the array in a text given to the parser.
MaxStatements == 2

TrailingStatements == {"updateSearchResults();", "seen[0] = [];", "var done;"}

AssignedTexts ==
  {"packageSearchIndex = " \o ArrayText(q) \o ";" \o Join(t, "") :
     q \in SeqsUpTo(PackageEntries, MaxPackages),
     t \in SeqsUpTo(TrailingStatements, MaxStatements)}

NoSite == SiteOf("", "", "", Resources)

InitParse ==
  /\ pc = "parse_package"
  /\ site = NoSite
  /\ base_url = SiteRoot
  /\ fetched = <<>>
  /\ package_js \in AssignedTexts
  /\ type_js = ""
  /\ index_1_html = ""
  /\ package_index = <<>>
  /\ type_index = <<>>
  /\ package_to_module = EmptyMapping
  /\ urls = {}
  /\ type_pos = 0
  /\ missing_modules = 0
  /\ encoded = <<>>
  /\ output_opened = FALSE
  /\ output_file = StaleOutput
  /\ fold_pos = 0
  /\ RecoverIdle

SpecParse == InitParse /\ [][ParsePackageIndex]_vars

\* The 1-based indices of the '[' after the '=' of text and of the ']'s at
\* which a JSON array that starts there ends.
C6_Open(text) == Find(text, "[", 0) + 1

C6_ArrayEnds(text) ==
  {e \in C6_Open(text)..Len(text) :
     CharAt(text, e) = "]" /\ JsonLoads(SubSeq(text, C6_Open(text), e)).ok}

\* The JSON array of a text '<identifier> = <JSON array>;<statements>'.
C6_Array(text) == JsonLoads(SubSeq(text, C6_Open(text), FirstOf(C6_ArrayEnds(text)))).val

\* C6: for every text '<identifier> = <JSON array>;' followed by statements,
\* parse_assigned_json_array returns the JSON array, whatever the statements
\* after it are.
C6_TrailingIgnored ==
  pc # "parse_package" => (pc = "parse_type" /\ package_index = C6_Array(package_js))

(***************************************************************************)
(* build_package_to_module alone, one iteration of its loop at a time.     *)
(***************************************************************************)

\* Most entries of a package index given to build_package_to_module.
MaxRecords == 2

\* What entry.get("m") and entry.get("l") can be: missing, not a string,
\* empty, or a name.
ModuleValues == {None, Num("7"), Str(""), Str("java.base"), Str("java.se")}
PackageValues == {None, Null, Str(""), Str("java.lang"), Str("java.util")}

RawEntries == {[EmptyEntry EXCEPT !.m = m, !.l = l] : m \in ModuleValues, l \in PackageValues}

InitFold ==
  /\ pc = "fold"
  /\ site = NoSite
  /\ base_url = SiteRoot
  /\ package_index \in SeqsUpTo(RawEntries, MaxRecords)
  /\ fetched = <<>>
  /\ package_js = ""
  /\ type_js = ""
  /\ index_1_html = ""
  /\ type_index = <<>>
  /\ package_to_module = EmptyMapping
  /\ urls = {}
  /\ type_pos = 0
  /\ missing_modules = 0
  /\ encoded = <<>>
  /\ output_opened = FALSE
  /\ output_file = StaleOutput
  /\ fold_pos = 0
  /\ RecoverIdle

\* One iteration of the loop of build_package_to_module (lines 64-68).
FoldStep ==
  /\ pc = "fold"
  /\ fold_pos < Len(package_index)
  /\ package_to_module' = FoldEntry(package_to_module, package_index[fold_pos + 1])
  /\ fold_pos' = fold_pos + 1
  /\ UNCHANGED <<pc, site, base_url, fetched, package_js, type_js, index_1_html,
                 package_index, type_index, urls, type_pos, missing_modules, encoded,
                 output_opened, output_file, recoverVars>>

\* return mapping
FoldReturn ==
  /\ pc = "fold"
  /\ fold_pos = Len(package_index)
  /\ pc' = "folded"
  /\ UNCHANGED <<site, base_url, fetched, package_js, type_js, index_1_html,
                 package_index, type_index, package_to_module, urls, type_pos,
                 missing_modules, encoded, output_opened, output_file, fold_pos,
                 recoverVars>>

NextFold == FoldStep \/ FoldReturn

SpecFold == InitFold /\ [][NextFold]_vars

\* The records processed so far that have a module and a package, both
\* non-empty strings.
C8_Valid(entry) ==
  /\ entry.m.t = "str" /\ entry.m.s # ""
  /\ entry.l.t = "str" /\ entry.l.s # ""

C8_Seen == {k \in 1..fold_pos : C8_Valid(package_index[k])}

C8_LastFor(package) ==
  CHOOSE k \in C8_Seen :
    /\ package_index[k].l.s = package
    /\ \A j \in C8_Seen : package_index[j].l.s = package => j <= k

\* C8: after any number of records, the keys of the mapping are the packages
\* of the valid records processed (records missing a field, or with an
\* empty or non-string field, are skipped), no key and no value is empty,
\* and every key maps to the module of the last valid record of that
\* package.
C8_FoldKeepsLast ==
  /\ DOMAIN package_to_module = {package_index[k].l.s : k \in C8_Seen}
  /\ \A package \in DOMAIN package_to_module :
       /\ package # ""
       /\ package_to_module[package] # ""
       /\ package_to_module[package] = package_index[C8_LastFor(package)].m.s
  /\ pc = "folded" => package_to_module = build_package_to_module(package_index)

\* Two valid records of one package in two modules, both processed, after a
\* fold that kept the second.
C8_Witness ==
  /\ pc = "folded"
  /\ fold_pos = 2
  /\ C8_Seen = {1, 2}
  /\ package_index[1].l = package_index[2].l
  /\ package_index[1].m # package_index[2].m
  /\ package_to_module[package_index[2].l.s] = package_index[2].m.s

(***************************************************************************)
(* scripts/recover_cache.py: analyze_java_serialized_data                  *)
(***************************************************************************)

\* magic = b'\xac\xed\x00\x05'
Magic == <<172, 237, 0, 5>>

\* The bytes an object must have past its start to count as complete
\* (line 91: obj_start + 100 < len(data)).
MinObjectSize == 100

\* Most blocks a file is made of.
MaxBlocks == 4

Zeros(n) == [k \in 1..n |-> 0]

\* The blocks of the files explored: a header, its two halves, and payload
\* of MinObjectSize - 4 bytes and of one byte, so that a header followed by
\* both is the shortest complete object.
Blocks == {Magic, <<172, 237>>, <<0, 5>>, Zeros(MinObjectSize - 4), Zeros(1)}

RECURSIVE Concat(_)
Concat(blocks) == IF blocks = <<>> THEN <<>> ELSE Head(blocks) \o Concat(Tail(blocks))

Files == {Concat(q) : q \in SeqsUpTo(Blocks, MaxBlocks)}

\* data.find(magic, start): 0-based offset, or -1.
MagicOffsets(bytes, start) ==
  {k \in start..(Len(bytes) - Len(Magic)) : SubSeq(bytes, k + 1, k + Len(Magic)) = Magic}

FindMagic(bytes, start) ==
  IF MagicOffsets(bytes, start) = {} THEN -1
  ELSE CHOOSE k \in MagicOffsets(bytes, start) : \A j \in MagicOffsets(bytes, start) : k <= j

\* data[:n]
Prefix(bytes, n) == SubSeq(bytes, 1, n)

InitRecover ==
  /\ pc = "scan"
  /\ site = NoSite
  /\ base_url = SiteRoot
  /\ Fresh
  /\ data \in Files
  /\ pos = 0
  /\ objects = <<>>
  /\ obj_i = 0
  /\ truncated_raw = NoFile
  /\ truncated_gz = NoFile
  /\ result = "pending"
  /\ write_failed = FALSE

\* The seed script's variables, pc apart, stay as they are.
SeedIdle ==
  UNCHANGED <<site, base_url, fetched, package_js, type_js, index_1_html, package_index,
              type_index, package_to_module, urls, type_pos, missing_modules, encoded,
              output_opened, output_file, fold_pos>>

\* One iteration of the while loop (lines 76-81) that finds a header.
ScanFound ==
  /\ pc = "scan"
  /\ pos < Len(data)
  /\ FindMagic(data, pos) # -1
  /\ objects' = Append(objects, FindMagic(data, pos))
  /\ pos' = FindMagic(data, pos) + 1
  /\ UNCHANGED <<pc, data, obj_i, truncated_raw, truncated_gz, result, write_failed>>
  /\ SeedIdle

\* The loop ends: pos has reached len(data), or find returned -1.  Then
\* line 85-87: the loop over the objects starts from the last one.
ScanEnd ==
  /\ pc = "scan"
  /\ pos >= Len(data) \/ FindMagic(data, pos) = -1
  /\ pc' = "select"
  /\ obj_i' = Len(objects) - 1
  /\ UNCHANGED <<data, pos, objects, truncated_raw, truncated_gz, result, write_failed>>
  /\ SeedIdle

\* objects[i] in Python's 0-based indexing.
ObjectAt(i) == objects[i + 1]

\* if obj_start + 100 < len(data)
LikelyComplete(i) == ObjectAt(i) + MinObjectSize < Len(data)

\* The object at obj_i is too short: the next iteration.
SelectSkip ==
  /\ pc = "select"
  /\ obj_i >= 0
  /\ ~LikelyComplete(obj_i)
  /\ obj_i' = obj_i - 1
  /\ UNCHANGED <<pc, data, pos, objects, truncated_raw, truncated_gz, result, write_failed>>
  /\ SeedIdle

\* The last object found is complete: break, and return None.  So does a
\* loop that has run out (or never ran: no objects).
SelectNone ==
  /\ pc = "select"
  /\ \/ obj_i < 0
     \/ /\ obj_i >= 0
        /\ LikelyComplete(obj_i)
        /\ obj_i = Len(objects) - 1
  /\ result' = "None"
  /\ pc' = "returned"
  /\ UNCHANGED <<data, pos, objects, obj_i, truncated_raw, truncated_gz, write_failed>>
  /\ SeedIdle

\* TruncatedData cutting at the last object found.
TruncatedDataAtLast(i) == Prefix(data, ObjectAt(Len(objects) - 1))

\* truncated_data = data[:objects[i+1]]
TruncatedData(i) == Prefix(data, ObjectAt(i + 1))

Written(content) == [written |-> TRUE, content |-> content]

\* Lines 95-108: both files are written and the path of the second returned.
SelectTruncate ==
  /\ pc = "select"
  /\ obj_i >= 0
  /\ LikelyComplete(obj_i)
  /\ obj_i < Len(objects) - 1
  /\ truncated_raw' = Written(TruncatedData(obj_i))
  /\ truncated_gz' = Written(TruncatedData(obj_i))
  /\ result' = "truncated_gz"
  /\ pc' = "returned"
  /\ UNCHANGED <<data, pos, objects, obj_i, write_failed>>
  /\ SeedIdle

\* A write raises (the disk is full, the directory is gone): the bare except
\* of line 110 swallows it and the loop goes on with the object before.  The
\* raw file is written or not, according to which write raised.
SelectWriteFails ==
  /\ pc = "select"
  /\ obj_i >= 0
  /\ LikelyComplete(obj_i)
  /\ obj_i < Len(objects) - 1
  /\ \/ truncated_raw' = Written(TruncatedData(obj_i))
     \/ UNCHANGED truncated_raw
  /\ obj_i' = obj_i - 1
  /\ write_failed' = TRUE
  /\ UNCHANGED <<pc, data, pos, objects, truncated_gz, result>>
  /\ SeedIdle

NextRecover ==
  \/ ScanFound
  \/ ScanEnd
  \/ SelectSkip
  \/ SelectNone
  \/ SelectTruncate
  \/ SelectWriteFails

SpecRecover == InitRecover /\ [][NextRecover]_vars

\* The loops of analyze_java_serialized_data are plain sequential code: a
\* step that can be taken is taken.
SpecRecoverFair == SpecRecover /\ WF_vars(NextRecover)

\* The 0-based indices of the headers found, and those counted as complete.
C10_Indices == 0..(Len(objects) - 1)
C10_Complete == {i \in C10_Indices : ObjectAt(i) + MinObjectSize < Len(data)}

C10_Scanned ==
  /\ \A k \in 1..(Len(objects) - 1) : objects[k] < objects[k + 1]
  /\ {objects[k] : k \in 1..Len(objects)} =
       IF pc = "scan" THEN {k \in MagicOffsets(data, 0) : k < pos} ELSE MagicOffsets(data, 0)

\* The files returned hold the input cut at the header that follows the
\* complete header the loop stopped at; that one is the last complete
\* header, and the cut at the first incomplete one, unless a write raised.
C10_Truncated ==
  result = "truncated_gz" =>
    /\ obj_i \in C10_Complete
    /\ obj_i + 1 \in C10_Indices
    /\ truncated_gz = Written(Prefix(data, ObjectAt(obj_i + 1)))
    /\ truncated_raw = truncated_gz
    /\ ~write_failed =>
         /\ \A j \in C10_Complete : j <= obj_i
         /\ \A j \in C10_Indices \ C10_Complete : ObjectAt(obj_i + 1) <= ObjectAt(j)

\* With the last header complete, or none complete, nothing is written.
C10_Nothing ==
  (pc = "returned" /\ (C10_Complete = {} \/ Len(objects) - 1 \in C10_Complete)) =>
    /\ result = "None"
    /\ truncated_raw = NoFile
    /\ truncated_gz = NoFile

\* Each iteration of the scan moves pos forward, within the input.
C10_ScanAdvances == ScanFound => (pos < pos' /\ pos' <= Len(data))

=============================================================================
